---- MODULE Spec2Model ----
(***************************************************************************)
(* Model of the Discord relay server: the subscription registry and relay  *)
(* of services/discord-bot.ts (DiscordBot), the per-connection handler of  *)
(* handlers/discord-handler.ts (DiscordHandler), and the socket            *)
(* authenticator of middleware/auth.ts.                                    *)
(*                                                                         *)
(* Execution model (Node.js): every handler runs to its next await of an   *)
(* external collaborator without interruption.  An await of a promise that *)
(* is already settled (subscribeToChannel, unsubscribeFromChannel,         *)
(* formatMessage, socket.join with the in-memory adapter) continues in the *)
(* same microtask drain, before any other I/O callback, so such a          *)
(* continuation belongs to the step that reached the await.  The awaits of *)
(* the upstream client (channels.fetch in getChannelInfo, members.fetch in *)
(* getUserChannels) are the points where a handler is suspended and other  *)
(* handlers run.                                                           *)
(***************************************************************************)
EXTENDS Naturals, Sequences, FiniteSets, TLC

(* Identifiers clients and the upstream platform may use. *)
Sockets  == {"s1", "s2"}
Channels == {"c1", "c2"}
Users    == {"u1", "u2"}
MsgIds   == {"m1", "m2"}

(* At most this many handlers are suspended at a call of the upstream
   client (getChannelInfo, getUserChannels) at one time. *)
MaxInFlight == 1

(* JavaScript null / undefined, and the absence of a value in a record. *)
Null      == "null"
Undefined == "undefined"
None      == "-"

Namespace == "/discord"
Room(c)   == "channel:" \o c

VARIABLES
  io,                    \* DiscordBot.io: Null until initialize
  channelSubscriptions,  \* DiscordBot.channelSubscriptions: Map channelId -> Set userId
  conn,                  \* per socket: "new", "connected" or "disconnected"
  data,                  \* per socket: socket.data
  joinedChannels,        \* per handler: DiscordHandler.joinedChannels, in insertion order
  rooms,                 \* per socket: the transport's delivery groups its id is in
  lookups,               \* per handler and channel: join_channel calls awaiting getChannelInfo
  snapshots,             \* per handler: sendInitialData awaits getUserChannels
  fetches,               \* per handler: get_channels calls awaiting getUserChannels
  requests,              \* the HTTP route: the requests awaiting getUserChannels, oldest first
  last,                  \* the call or handler step that ran last, with its arguments and outcome
  out                    \* the transport emits that step made, in order

vars == <<io, channelSubscriptions, conn, data, joinedChannels, rooms, lookups, snapshots,
          fetches, requests, last, out>>

handlerVars == <<io, conn, data, joinedChannels, rooms, lookups, snapshots, fetches, requests>>

(* An upstream message that is not there. *)
NoMsg == [id |-> None, content |-> None, hasAuthor |-> FALSE, bot |-> FALSE,
          hasChannel |-> FALSE, channelId |-> None, editedAt |-> Null]

(* A callback that was not called. *)
NoReply == [called |-> FALSE, success |-> FALSE, channelId |-> Undefined,
            alreadyJoined |-> Undefined, error |-> Undefined, channels |-> Undefined]

(* No response of the HTTP route. *)
NoResponse == [code |-> 0, status |-> None, data |-> << >>, message |-> None]

(* A credential that was not presented. *)
NoTok == [kind |-> None, username |-> "", discord_id |-> ""]

NoCall == [op |-> "none", s |-> None, c |-> None, u |-> None, twice |-> FALSE,
           member |-> FALSE, msg |-> NoMsg, reply |-> NoReply, err |-> None,
           res |-> None, tok |-> NoTok, logId |-> None, up |-> None, stats |-> None,
           response |-> NoResponse]

(* The record of a handler step; member: u was a subscriber of c when the
   step began; res: what the upstream lookup gave a resumed join_channel;
   tok: the credential of a connection; logId: the id the step gave logError;
   up: what the guilds gave a resumed get_channels or a resumed request of
   the HTTP route; stats: what getSubscriptionStats returned; response: what
   the HTTP route answered. *)
Did(op, s, c, u, msg, reply, err) ==
  [op |-> op, s |-> s, c |-> c, u |-> u, twice |-> FALSE,
   member |-> (c \in DOMAIN channelSubscriptions /\ u \in channelSubscriptions[c]),
   msg |-> msg, reply |-> reply, err |-> err, res |-> None, tok |-> NoTok,
   logId |-> None, up |-> None, stats |-> None, response |-> NoResponse]

(* The record of a direct registry call; twice: the step before it was the
   same call. *)
Call(op, c, u) ==
  [Did(op, None, c, u, NoMsg, NoReply, None) EXCEPT
     !.twice = (last.op = op /\ last.c = c /\ last.u = u)]

(* Map.get(channelId): the subscriber set, or undefined (here the empty set
   with has = FALSE). *)
Has(reg, c) == c \in DOMAIN reg
Get(reg, c) == IF Has(reg, c) THEN reg[c] ELSE {}

(* Map.delete(channelId). *)
MapDelete(reg, c) == [k \in (DOMAIN reg) \ {c} |-> reg[k]]

(* A faulty variant: the add is put in the else branch of the has-check. *)
subscribeToChannel_addInElse(reg, c, u) ==
  IF ~Has(reg, c) THEN reg @@ (c :> {}) ELSE [reg EXCEPT ![c] = @ \cup {u}]

(* DiscordBot.subscribeToChannel: create the set when absent, then add. *)
subscribeToChannel(reg, c, u) ==
  LET r1 == IF ~Has(reg, c) THEN reg @@ (c :> {}) ELSE reg
  IN  [r1 EXCEPT ![c] = @ \cup {u}]

(* A faulty variant: the empty set is left in the map. *)
unsubscribeFromChannel_noCleanup(reg, c, u) ==
  IF Has(reg, c) THEN [reg EXCEPT ![c] = @ \ {u}] ELSE reg

(* A faulty variant: the size is tested before the delete, and against 1. *)
unsubscribeFromChannel_sizeFirst(reg, c, u) ==
  IF Has(reg, c)
  THEN IF Cardinality(reg[c]) <= 1 THEN MapDelete(reg, c)
       ELSE [reg EXCEPT ![c] = @ \ {u}]
  ELSE reg

(* DiscordBot.unsubscribeFromChannel: delete the subscriber, and the entry
   when its set became empty; nothing when the channel has no entry. *)
unsubscribeFromChannel(reg, c, u) ==
  IF Has(reg, c)
  THEN LET r1 == [reg EXCEPT ![c] = @ \ {u}]
       IN  IF Cardinality(r1[c]) = 0 THEN MapDelete(r1, c) ELSE r1
  ELSE reg

NoData == [user |-> Null, discordId |-> Undefined, userId |-> Undefined]

Init ==
  /\ io = Null
  /\ channelSubscriptions = << >>
  /\ conn = [s \in Sockets |-> "new"]
  /\ data = [s \in Sockets |-> NoData]
  /\ joinedChannels = [s \in Sockets |-> << >>]
  /\ rooms = [s \in Sockets |-> {}]
  /\ lookups = [s \in Sockets |-> [c \in Channels |-> 0]]
  /\ snapshots = [s \in Sockets |-> FALSE]
  /\ fetches = [s \in Sockets |-> 0]
  /\ requests = << >>
  /\ last = NoCall
  /\ out = << >>

(***************************************************************************)
(* The transport (socket.io): emits and delivery groups.                   *)
(***************************************************************************)

(* The sockets of the namespace that are in a delivery group now. *)
InRoom(room) == {t \in Sockets : conn[t] = "connected" /\ room \in rooms[t]}

Emit(name, room, sock, payload, recv) ==
  [name |-> name, ns |-> Namespace, room |-> room, sock |-> sock,
   payload |-> payload, recv |-> recv]

(* this.io?.of('/discord').to(`channel:${channelId}`).emit(name, payload):
   nothing when io is null, else one broadcast to the group. *)
ioToEmit(name, c, payload) ==
  IF io = Null THEN << >>
  ELSE << Emit(name, Room(c), None, payload, InRoom(Room(c))) >>

(* this.socket.emit(name, payload): to the socket itself. *)
socketEmit(s, name, payload) ==
  Emit(name, None, s, payload, IF conn[s] = "connected" THEN {s} ELSE {})

(* this.socket.to(room).emit(name, payload), with the group membership
   `rm`: to the group, the sending socket left out. *)
socketToEmit(s, rm, name, c, payload) ==
  Emit(name, Room(c), s, payload,
       {t \in Sockets \ {s} : conn[t] = "connected" /\ Room(c) \in rm[t]})

(***************************************************************************)
(* DiscordBot: the relay of upstream events.                               *)
(***************************************************************************)

(* Date.toISOString() of an upstream time. *)
toISOString(d) == "iso:" \o d

(* The upstream messages: author and channel may be missing (a malformed
   payload); editedAt is null on a message that was never edited. *)
Msg(id, hasAuthor, bot, hasChannel, c, editedAt) ==
  [id |-> id, content |-> "content of " \o id, hasAuthor |-> hasAuthor, bot |-> bot,
   hasChannel |-> hasChannel, channelId |-> c, editedAt |-> editedAt]

(* Messages of a human author, of a bot, and the malformed ones.  A partial
   message of a messageUpdate is dropped by the listener before
   handleMessageUpdate, and is no event here. *)
ByHuman(edits) ==
  {Msg(id, TRUE, FALSE, TRUE, c, e) : id \in MsgIds, c \in Channels, e \in edits}
ByBot == {Msg("m1", TRUE, TRUE, TRUE, c, Null) : c \in Channels}
NoAuthor == Msg("m1", FALSE, FALSE, TRUE, "c1", Null)
NoChannel == Msg("m1", TRUE, FALSE, FALSE, None, Null)

Created == ByHuman({Null}) \cup ByBot \cup {NoAuthor, NoChannel}
Updated == ByHuman({Null, "t1"}) \cup ByBot \cup {NoAuthor, NoChannel}
Deleted == ByHuman({Null}) \cup {NoChannel}

(* DiscordBot.formatMessage, for a message whose author and channel are
   there.  The upstream author has no display name (displayName falls back to
   the username), the message has no guild (serverId is '') and no
   attachments, embeds or reactions (the three maps give empty lists). *)
formatMessage(m) ==
  [id |-> m.id,
   content |-> m.content,
   author |-> [id |-> "a1", username |-> "ann", displayName |-> "ann",
               avatar |-> "avatar:a1", bot |-> m.bot],
   timestamp |-> toISOString("t0"),
   channelId |-> m.channelId,
   serverId |-> "",
   attachments |-> << >>, embeds |-> << >>, reactions |-> << >>,
   edited |-> FALSE,
   editedTimestamp |-> ""]

(* What a relay handler did: the emits, and how it ended: "" (returned),
   "caught" (its catch block logged an error) or "unhandled" (the error left
   the async handler as a rejected promise nobody handles). *)
Outcome(emits, err) == [emits |-> emits, err |-> err]

(* A faulty variant: the message is emitted to the group a second time. *)
newMessage_emitTwice(m) ==
  IF ~m.hasAuthor THEN Outcome(<< >>, "unhandled")
  ELSE IF m.bot THEN Outcome(<< >>, "")
  ELSE IF ~m.hasChannel THEN Outcome(<< >>, "unhandled")
  ELSE IF Cardinality(Get(channelSubscriptions, m.channelId)) = 0
       THEN Outcome(<< >>, "")
  ELSE Outcome(ioToEmit("message", m.channelId, formatMessage(m))
               \o ioToEmit("message", m.channelId, formatMessage(m)), "")

(* A faulty variant: the bot filter is left out. *)
newMessage_noBotFilter(m) ==
  IF ~m.hasAuthor THEN Outcome(<< >>, "unhandled")
  ELSE IF ~m.hasChannel THEN Outcome(<< >>, "unhandled")
  ELSE IF Cardinality(Get(channelSubscriptions, m.channelId)) = 0
       THEN Outcome(<< >>, "")
  ELSE Outcome(ioToEmit("message", m.channelId, formatMessage(m)), "")

(* DiscordBot.handleNewMessage. message.author.bot and message.channel.id
   are read before the try block. *)
newMessage(m) ==
  IF ~m.hasAuthor THEN Outcome(<< >>, "unhandled")
  ELSE IF m.bot THEN Outcome(<< >>, "")
  ELSE IF ~m.hasChannel THEN Outcome(<< >>, "unhandled")
  ELSE IF ~Has(channelSubscriptions, m.channelId)
          \/ Cardinality(Get(channelSubscriptions, m.channelId)) = 0
       THEN Outcome(<< >>, "")
  ELSE Outcome(ioToEmit("message", m.channelId, formatMessage(m)), "")

(* A faulty variant: the edit time is not stamped. *)
messageUpdate_noStamp(m) ==
  IF ~m.hasAuthor THEN Outcome(<< >>, "unhandled")
  ELSE IF m.bot THEN Outcome(<< >>, "")
  ELSE IF ~m.hasChannel THEN Outcome(<< >>, "caught")
  ELSE Outcome(ioToEmit("message_update", m.channelId,
                 [formatMessage(m) EXCEPT !.edited = TRUE]),
               "")

(* DiscordBot.handleMessageUpdate. message.author.bot is read before the
   try block; formatMessage reads message.channel.id inside it. *)
messageUpdate(m) ==
  IF ~m.hasAuthor THEN Outcome(<< >>, "unhandled")
  ELSE IF m.bot THEN Outcome(<< >>, "")
  ELSE IF ~m.hasChannel THEN Outcome(<< >>, "caught")
  ELSE Outcome(ioToEmit("message_update", m.channelId,
                 [formatMessage(m) EXCEPT
                    !.edited = TRUE,
                    !.editedTimestamp =
                       IF m.editedAt = Null THEN "" ELSE toISOString(m.editedAt)]),
               "")

(* A faulty variant: the whole normalized message is sent. *)
messageDelete_fullPayload(m) ==
  IF ~m.hasChannel THEN Outcome(<< >>, "caught")
  ELSE Outcome(ioToEmit("message_delete", m.channelId,
                 formatMessage(m) @@ [messageId |-> m.id]), "")

(* DiscordBot.handleMessageDelete: all of it is inside the try block. *)
messageDelete(m) ==
  IF ~m.hasChannel THEN Outcome(<< >>, "caught")
  ELSE Outcome(ioToEmit("message_delete", m.channelId,
                 [messageId |-> m.id, channelId |-> m.channelId]), "")

relayVars == <<io, channelSubscriptions, conn, data, joinedChannels, rooms, lookups, snapshots, fetches, requests>>

(* The upstream client's events reach the handlers once initialize has set
   io and logged the client in. *)
Relay(op, m, o) ==
  /\ io # Null
  /\ last' = Did(op, None, IF m.hasChannel THEN m.channelId ELSE None, None,
                 m, NoReply, o.err)
  /\ out' = o.emits
  /\ UNCHANGED relayVars

handleNewMessage(m) == Relay("messageCreate", m, newMessage(m))

handleMessageUpdate(m) == Relay("messageUpdate", m, messageUpdate(m))

handleMessageDelete(m) == Relay("messageDelete", m, messageDelete(m))

(* DiscordBot.initialize: io is set, then the client logs in. *)
initialize ==
  /\ io = Null
  /\ io' = "server"
  /\ last' = Did("initialize", None, None, None, NoMsg, NoReply, None)
  /\ out' = << >>
  /\ UNCHANGED <<channelSubscriptions, conn, data, joinedChannels, rooms, lookups, snapshots, fetches, requests>>

(***************************************************************************)
(* The socket authenticator (middleware/auth.ts).                          *)
(***************************************************************************)

(* The credentials a client may present: none, one jwt.verify rejects
   (malformed, wrongly signed or expired), or a verified one with its
   payload, whose username or discord_id may be missing. *)
Tokens ==
  {[kind |-> k, username |-> "", discord_id |-> ""] :
      k \in {"absent", "malformed", "badsignature", "expired"}}
  \cup [kind : {"valid"}, username : {"", "ann"}, discord_id : Users \cup {""}]

(* jwt.verify: the class of the error it throws, None when it returns the
   payload.  In the jsonwebtoken library TokenExpiredError extends
   JsonWebTokenError. *)
jwtVerify(tok) ==
  IF tok.kind \in {"malformed", "badsignature"} THEN "JsonWebTokenError"
  ELSE IF tok.kind = "expired" THEN "TokenExpiredError"
  ELSE None

instanceof(e, class) ==
  e = class \/ (e = "TokenExpiredError" /\ class = "JsonWebTokenError")

(* A faulty variant: discordId is attached before the payload's fields are
   validated. *)
authenticateSocket_idFirst(tok) ==
  IF tok.kind = "absent"
  THEN [error |-> "Authentication token required", data |-> NoData]
  ELSE IF tok.kind \in {"malformed", "badsignature", "expired"}
  THEN [error |-> "Invalid authentication token", data |-> NoData]
  ELSE IF tok.username = "" \/ tok.discord_id = ""
  THEN [error |-> "Invalid token payload",
        data |-> [NoData EXCEPT !.discordId = tok.discord_id]]
  ELSE [error |-> None,
        data |-> [user |-> [username |-> tok.username, discord_id |-> tok.discord_id],
                  discordId |-> tok.discord_id,
                  userId |-> Undefined]]

(* A faulty variant: an incomplete payload is reported as a signature
   failure. *)
authenticateSocket_oneMessage(tok) ==
  IF tok.kind = "absent"
  THEN [error |-> "Authentication token required", data |-> NoData]
  ELSE IF tok.kind \in {"malformed", "badsignature", "expired"}
          \/ tok.username = "" \/ tok.discord_id = ""
  THEN [error |-> "Invalid authentication token", data |-> NoData]
  ELSE [error |-> None,
        data |-> [user |-> [username |-> tok.username, discord_id |-> tok.discord_id],
                  discordId |-> tok.discord_id,
                  userId |-> Undefined]]

(* authenticateSocket: the error given to next (None: next()), and the
   socket.data it leaves. *)
authenticateSocket(tok) ==
  IF tok.kind = "absent"
  THEN [error |-> "Authentication token required", data |-> NoData]
  ELSE IF jwtVerify(tok) # None
  THEN \* the catch block: the instanceof tests in the order of the code
       IF instanceof(jwtVerify(tok), "JsonWebTokenError")
       THEN [error |-> "Invalid authentication token", data |-> NoData]
       ELSE IF instanceof(jwtVerify(tok), "TokenExpiredError")
       THEN [error |-> "Authentication token expired", data |-> NoData]
       ELSE [error |-> "Authentication failed", data |-> NoData]
  ELSE IF tok.username = "" \/ tok.discord_id = ""
  THEN [error |-> "Invalid token payload", data |-> NoData]
  ELSE [error |-> None,
        data |-> [user |-> [username |-> tok.username, discord_id |-> tok.discord_id],
                  discordId |-> tok.discord_id,
                  userId |-> Undefined]]

(***************************************************************************)
(* DiscordHandler: one per connection that passed the authenticator.       *)
(***************************************************************************)

Reply(success, channelId, alreadyJoined, error) ==
  [called |-> TRUE, success |-> success, channelId |-> channelId,
   alreadyJoined |-> alreadyJoined, error |-> error, channels |-> Undefined]

(* Set.has / Set.add / Set.delete on joinedChannels, kept in insertion
   order. *)
SeqHas(q, c) == \E i \in 1..Len(q) : q[i] = c
SeqAdd(q, c) == IF SeqHas(q, c) THEN q ELSE Append(q, c)
SeqDelete(q, c) == SelectSeq(q, LAMBDA x : x # c)

(* The handlers suspended at the upstream client. *)
InFlight ==
  LET RECURSIVE Sum(_)
      Sum(S) == IF S = {} THEN 0
                ELSE LET p == CHOOSE p \in S : TRUE
                     IN  lookups[p[1]][p[2]] + Sum(S \ {p})
      RECURSIVE Fetching(_)
      Fetching(S) == IF S = {} THEN 0
                     ELSE LET s == CHOOSE s \in S : TRUE
                          IN  fetches[s] + Fetching(S \ {s})
  IN  Sum(Sockets \X Channels) + Cardinality({s \in Sockets : snapshots[s]})
        + Fetching(Sockets)

(* The namespace's connection: authenticateSocket, then on success a new
   DiscordHandler and setupEventHandlers.  A refused connection leaves no
   socket behind.  No handler reads io, so a connection made before
   initialize behaves as one made after it: connections are taken from
   initialize on. *)
Connect(s, tok) ==
  LET a == authenticateSocket(tok) IN
  /\ io # Null
  /\ conn[s] = "new"
  /\ IF a.error = None
     THEN /\ InFlight < MaxInFlight
          /\ conn' = [conn EXCEPT ![s] = "connected"]
          /\ snapshots' = [snapshots EXCEPT ![s] = TRUE]
     ELSE UNCHANGED <<conn, snapshots>>
  /\ data' = [data EXCEPT ![s] = a.data]
  /\ last' = [Did("connect", s, None, a.data.discordId, NoMsg, NoReply, a.error)
              EXCEPT !.tok = tok]
  /\ out' = << >>
  /\ UNCHANGED <<io, channelSubscriptions, joinedChannels, rooms, lookups, fetches, requests>>

(* The guilds of the upstream client's cache, each by the text channels in
   it the member can view. *)
GuildChannels == << << "c1" >>, << "c2" >> >>

(* What the guilds give one run of getUserChannels, guild by guild: the
   member ("member"), a rejected members.fetch, which the code turns into
   null ("rejected"), or an exception while the guild's channels are
   filtered and listed ("throws"). *)
GuildFetches == [1..Len(GuildChannels) -> {"member", "rejected", "throws"}]

(* A faulty variant: the catch block returns what was listed so far. *)
getUserChannels_partial(up) ==
  LET RECURSIVE Enumerate(_, _)
      Enumerate(i, channels) ==
        IF i > Len(up) THEN channels
        ELSE IF up[i] = "throws" THEN channels
        ELSE IF up[i] = "member" THEN Enumerate(i + 1, channels \o GuildChannels[i])
        ELSE Enumerate(i + 1, channels)
  IN  Enumerate(1, << >>)

(* DiscordBot.getUserChannels: the channels of the guilds the principal is
   a member of, in guild order (each by its id); a guild whose members.fetch
   was rejected is skipped; the empty list when anything threw. *)
getUserChannels(up) ==
  LET RECURSIVE Enumerate(_, _)
      Enumerate(i, channels) ==
        IF i > Len(up) THEN channels
        ELSE IF up[i] = "throws" THEN << >>
        ELSE IF up[i] = "member" THEN Enumerate(i + 1, channels \o GuildChannels[i])
        ELSE Enumerate(i + 1, channels)
  IN  Enumerate(1, << >>)

(* What getUserChannels can give. *)
UserChannels == {getUserChannels(up) : up \in GuildFetches}

(* DiscordHandler.sendInitialData, from the result of getUserChannels on:
   the channel list and the user info go to the socket. *)
sendInitialData(s, channels) ==
  /\ snapshots[s]
  /\ snapshots' = [snapshots EXCEPT ![s] = FALSE]
  /\ out' = << socketEmit(s, "channels", channels),
               socketEmit(s, "user_info",
                          [userId |-> data[s].userId,
                           username |-> data[s].user.username,
                           permissions |-> Undefined]) >>
  /\ last' = Did("initial_data", s, None, data[s].discordId, NoMsg, NoReply, None)
  /\ UNCHANGED <<io, channelSubscriptions, conn, data, joinedChannels, rooms, lookups,
                 fetches, requests>>

(* DiscordHandler.handleGetChannels, to its await of getUserChannels. *)
getChannelsStart(s) ==
  /\ conn[s] = "connected"
  /\ InFlight < MaxInFlight
  /\ fetches' = [fetches EXCEPT ![s] = @ + 1]
  /\ last' = Did("get_channels", s, None, data[s].discordId, NoMsg, NoReply, None)
  /\ out' = << >>
  /\ UNCHANGED <<io, channelSubscriptions, conn, data, joinedChannels, rooms, lookups,
                 snapshots, requests>>

(* DiscordHandler.handleGetChannels, from the result of getUserChannels on:
   the list goes to the socket as channels_list and to the callback.
   getUserChannels never rejects, so the catch block is not entered. *)
getChannelsResume(s, up) ==
  LET channels == getUserChannels(up) IN
  /\ fetches[s] > 0
  /\ fetches' = [fetches EXCEPT ![s] = @ - 1]
  /\ out' = << socketEmit(s, "channels_list", channels) >>
  /\ last' = [Did("get_channels_resume", s, None, data[s].discordId, NoMsg,
                  [Reply(TRUE, Undefined, Undefined, Undefined)
                     EXCEPT !.channels = channels],
                  None)
              EXCEPT !.up = up]
  /\ UNCHANGED <<io, channelSubscriptions, conn, data, joinedChannels, rooms, lookups,
                 snapshots, requests>>

(* The channel descriptor join_channel confirms with. *)
ChannelDescriptor(c) ==
  [id |-> c, name |-> "name:" \o c, type |-> "text", serverId |-> "g1",
   serverName |-> "guild", position |-> 0, unreadCount |-> 0, isActive |-> TRUE,
   permissions |-> [canRead |-> TRUE, canWrite |-> TRUE, canManage |-> FALSE]]

(* DiscordHandler.handleJoinChannel, to its await of getChannelInfo, while
   fewer than max handlers are suspended at the upstream client. *)
joinChannelWithin(s, c, max) ==
  /\ conn[s] = "connected"
  /\ IF SeqHas(joinedChannels[s], c)
     THEN /\ last' = Did("join_channel", s, c, data[s].discordId, NoMsg,
                         Reply(TRUE, c, TRUE, Undefined), None)
          /\ UNCHANGED lookups
     ELSE /\ InFlight < max
          /\ lookups' = [lookups EXCEPT ![s][c] = @ + 1]
          /\ last' = Did("join_channel", s, c, data[s].discordId, NoMsg,
                         NoReply, None)
  /\ out' = << >>
  /\ UNCHANGED <<io, channelSubscriptions, conn, data, joinedChannels, rooms, snapshots,
                 fetches, requests>>

(* A faulty variant: the already-joined test is left out. *)
joinChannelStart_noShortCircuit(s, c) ==
  /\ conn[s] = "connected"
  /\ InFlight < MaxInFlight
  /\ lookups' = [lookups EXCEPT ![s][c] = @ + 1]
  /\ last' = Did("join_channel", s, c, data[s].discordId, NoMsg, NoReply, None)
  /\ out' = << >>
  /\ UNCHANGED <<io, channelSubscriptions, conn, data, joinedChannels, rooms, snapshots, fetches, requests>>

(* DiscordHandler.handleJoinChannel, to its await of getChannelInfo: the
   short circuit for a channel already joined, else the upstream lookup
   starts. *)
joinChannelStart(s, c) == joinChannelWithin(s, c, MaxInFlight)

(* What client.channels.fetch gives getChannelInfo: a text channel, a channel
   that is not text based, null (unknown channel), or a rejection. *)
FetchResults == {"text", "nontext", "null", "error"}

(* A faulty variant: the channel is put in the joined-set before the lookup's
   result is looked at. *)
joinChannelResume_addFirst(s, c, res) ==
  /\ lookups[s][c] > 0
  /\ lookups' = [lookups EXCEPT ![s][c] = @ - 1]
  /\ joinedChannels' = [joinedChannels EXCEPT ![s] = SeqAdd(@, c)]
  /\ IF res = "text"
     THEN /\ rooms' = [rooms EXCEPT ![s] = @ \cup {Room(c)}]
          /\ channelSubscriptions' =
               subscribeToChannel(channelSubscriptions, c, data[s].discordId)
          /\ out' = << socketEmit(s, "channels", ChannelDescriptor(c)) >>
          /\ last' = [Did("join_channel_resume", s, c, data[s].discordId, NoMsg,
                             Reply(TRUE, c, Undefined, Undefined), None)
                         EXCEPT !.res = res]
     ELSE /\ out' = << >>
          /\ last' = [Did("join_channel_resume", s, c, data[s].discordId, NoMsg,
                             Reply(FALSE, Undefined, Undefined, "Failed to join channel"),
                             "caught")
                         EXCEPT !.res = res, !.logId = data[s].userId]
          /\ UNCHANGED <<rooms, channelSubscriptions>>
  /\ UNCHANGED <<io, conn, data, snapshots, fetches, requests>>

(* A faulty variant: the principal is not subscribed in the registry. *)
joinChannelResume_noSubscribe(s, c, res) ==
  /\ lookups[s][c] > 0
  /\ lookups' = [lookups EXCEPT ![s][c] = @ - 1]
  /\ IF res = "text"
     THEN /\ rooms' = [rooms EXCEPT ![s] = @ \cup {Room(c)}]
          /\ joinedChannels' = [joinedChannels EXCEPT ![s] = SeqAdd(@, c)]
          /\ UNCHANGED channelSubscriptions
          /\ out' = << socketEmit(s, "channels", ChannelDescriptor(c)) >>
          /\ last' = [Did("join_channel_resume", s, c, data[s].discordId, NoMsg,
                             Reply(TRUE, c, Undefined, Undefined), None)
                         EXCEPT !.res = res]
     ELSE /\ out' = << >>
          /\ last' = [Did("join_channel_resume", s, c, data[s].discordId, NoMsg,
                             Reply(FALSE, Undefined, Undefined, "Failed to join channel"),
                             "caught")
                         EXCEPT !.res = res, !.logId = data[s].userId]
          /\ UNCHANGED <<rooms, joinedChannels, channelSubscriptions>>
  /\ UNCHANGED <<io, conn, data, snapshots, fetches, requests>>

(* DiscordHandler.handleJoinChannel, from the lookup's result on.  On a text
   channel: socket.join (the adapter adds the socket's id to the group, also
   when the socket has disconnected; nothing is delivered to such an id),
   joinedChannels.add, subscribeToChannel, the confirmation and the callback.
   On anything else getChannelInfo throws, and the catch block logs and
   calls back with the failure. *)
joinChannelResume(s, c, res) ==
  /\ lookups[s][c] > 0
  /\ lookups' = [lookups EXCEPT ![s][c] = @ - 1]
  /\ IF res = "text"
     THEN /\ rooms' = [rooms EXCEPT ![s] = @ \cup {Room(c)}]
          /\ joinedChannels' = [joinedChannels EXCEPT ![s] = SeqAdd(@, c)]
          /\ channelSubscriptions' =
               subscribeToChannel(channelSubscriptions, c, data[s].discordId)
          /\ out' = << socketEmit(s, "channels", ChannelDescriptor(c)) >>
          /\ last' = [Did("join_channel_resume", s, c, data[s].discordId, NoMsg,
                             Reply(TRUE, c, Undefined, Undefined), None)
                         EXCEPT !.res = res]
     ELSE /\ out' = << >>
          /\ last' = [Did("join_channel_resume", s, c, data[s].discordId, NoMsg,
                             Reply(FALSE, Undefined, Undefined, "Failed to join channel"),
                             "caught")
                         EXCEPT !.res = res, !.logId = data[s].userId]
          /\ UNCHANGED <<rooms, joinedChannels, channelSubscriptions>>
  /\ UNCHANGED <<io, conn, data, snapshots, fetches, requests>>

(* A faulty variant: a channel outside the joined-set is refused. *)
handleLeaveChannel_onlyJoined(s, c) ==
  /\ conn[s] = "connected"
  /\ IF SeqHas(joinedChannels[s], c)
     THEN /\ rooms' = [rooms EXCEPT ![s] = @ \ {Room(c)}]
          /\ joinedChannels' = [joinedChannels EXCEPT ![s] = SeqDelete(@, c)]
          /\ channelSubscriptions' =
               unsubscribeFromChannel(channelSubscriptions, c, data[s].discordId)
          /\ last' = Did("leave_channel", s, c, data[s].discordId, NoMsg,
                         Reply(TRUE, c, Undefined, Undefined), None)
     ELSE /\ UNCHANGED <<rooms, joinedChannels, channelSubscriptions>>
          /\ last' = Did("leave_channel", s, c, data[s].discordId, NoMsg,
                         Reply(FALSE, Undefined, Undefined, "Failed to leave channel"),
                         "caught")
  /\ out' = << >>
  /\ UNCHANGED <<io, conn, data, lookups, snapshots, fetches, requests>>

(* A faulty variant: the socket is not taken out of the group. *)
handleLeaveChannel_keepRoom(s, c) ==
  /\ conn[s] = "connected"
  /\ UNCHANGED rooms
  /\ joinedChannels' = [joinedChannels EXCEPT ![s] = SeqDelete(@, c)]
  /\ channelSubscriptions' =
       unsubscribeFromChannel(channelSubscriptions, c, data[s].discordId)
  /\ last' = [Did("leave_channel", s, c, data[s].discordId, NoMsg,
                  Reply(TRUE, c, Undefined, Undefined), None)
              EXCEPT !.twice = (last.op = "leave_channel" /\ last.s = s /\ last.c = c)]
  /\ out' = << >>
  /\ UNCHANGED <<io, conn, data, lookups, snapshots, fetches, requests>>

(* DiscordHandler.handleLeaveChannel: socket.leave, joinedChannels.delete,
   unsubscribeFromChannel, the callback.  twice: the step before it was the
   same request of the same socket. *)
handleLeaveChannel(s, c) ==
  /\ conn[s] = "connected"
  /\ rooms' = [rooms EXCEPT ![s] = @ \ {Room(c)}]
  /\ joinedChannels' = [joinedChannels EXCEPT ![s] = SeqDelete(@, c)]
  /\ channelSubscriptions' =
       unsubscribeFromChannel(channelSubscriptions, c, data[s].discordId)
  /\ last' = [Did("leave_channel", s, c, data[s].discordId, NoMsg,
                  Reply(TRUE, c, Undefined, Undefined), None)
              EXCEPT !.twice = (last.op = "leave_channel" /\ last.s = s /\ last.c = c)]
  /\ out' = << >>
  /\ UNCHANGED <<io, conn, data, lookups, snapshots, fetches, requests>>

(* A faulty variant: the error goes to every socket of the namespace. *)
handleError_broadcast(s) ==
  /\ conn[s] = "connected"
  /\ out' = << Emit("error", None, None,
                    [code |-> "CLIENT_ERROR", message |-> "An error occurred",
                     severity |-> "MEDIUM"],
                    {t \in Sockets : conn[t] = "connected"}) >>
  /\ last' = [Did("socket_error", s, None, data[s].discordId, NoMsg, NoReply, "caught")
              EXCEPT !.logId = data[s].userId]
  /\ UNCHANGED <<io, channelSubscriptions, conn, data, joinedChannels, rooms, lookups,
                 snapshots, fetches, requests>>

(* DiscordHandler.handleError, the listener of the socket's 'error' event:
   logError with socket.data.userId, then a generic error to the socket. *)
handleError(s) ==
  /\ conn[s] = "connected"
  /\ out' = << socketEmit(s, "error",
                          [code |-> "CLIENT_ERROR", message |-> "An error occurred",
                           severity |-> "MEDIUM"]) >>
  /\ last' = [Did("socket_error", s, None, data[s].discordId, NoMsg, NoReply, "caught")
              EXCEPT !.logId = data[s].userId]
  /\ UNCHANGED <<io, channelSubscriptions, conn, data, joinedChannels, rooms, lookups,
                 snapshots, fetches, requests>>

(* The registry after the disconnect loop over the joined channels q. *)
RECURSIVE unsubscribeAll(_, _, _)
unsubscribeAll(reg, q, u) ==
  IF q = << >> THEN reg
  ELSE unsubscribeAll(unsubscribeFromChannel(reg, Head(q), u), Tail(q), u)

UserLeft(s, c) ==
  [channelId |-> c,
   user |-> [id |-> data[s].userId, username |-> data[s].user.username]]

(* A faulty variant: the joined-set is cleared and nothing is unsubscribed. *)
disconnectCleanup_noUnsubscribe(s, rm) ==
  [reg |-> channelSubscriptions,
   emits |-> [i \in 1..Len(joinedChannels[s]) |->
                socketToEmit(s, rm, "user_left", joinedChannels[s][i],
                             UserLeft(s, joinedChannels[s][i]))],
   joined |-> << >>]

(* A faulty variant: the notification goes to the whole group through the
   namespace, and is sent before the socket's groups are given up. *)
disconnectCleanup_emitToAll(s, rm) ==
  [reg |-> unsubscribeAll(channelSubscriptions, joinedChannels[s], data[s].discordId),
   emits |-> [i \in 1..Len(joinedChannels[s]) |->
                Emit("user_left", Room(joinedChannels[s][i]), None,
                     UserLeft(s, joinedChannels[s][i]),
                     InRoom(Room(joinedChannels[s][i])))],
   joined |-> << >>]

(* The body of DiscordHandler.handleDisconnect, with the group membership rm
   the transport has left: for every joined channel unsubscribeFromChannel
   and a user_left to the group's other sockets, then joinedChannels.clear. *)
disconnectCleanup(s, rm) ==
  [reg |-> unsubscribeAll(channelSubscriptions, joinedChannels[s], data[s].discordId),
   emits |-> [i \in 1..Len(joinedChannels[s]) |->
                socketToEmit(s, rm, "user_left", joinedChannels[s][i],
                             UserLeft(s, joinedChannels[s][i]))],
   joined |-> << >>]

DisconnectReasons == {"transport close", "client namespace disconnect"}

(* The socket closes: the transport takes it out of all its groups and
   marks it disconnected, then the 'disconnect' listener runs. *)
handleDisconnect(s, reason) ==
  LET rm == [rooms EXCEPT ![s] = {}]
      d  == disconnectCleanup(s, rm) IN
  /\ conn[s] = "connected"
  /\ conn' = [conn EXCEPT ![s] = "disconnected"]
  /\ rooms' = rm
  /\ channelSubscriptions' = d.reg
  /\ joinedChannels' = [joinedChannels EXCEPT ![s] = d.joined]
  /\ out' = d.emits
  /\ last' = Did("disconnect", s, reason, data[s].discordId, NoMsg, NoReply, None)
  /\ UNCHANGED <<io, data, lookups, snapshots, fetches, requests>>

(***************************************************************************)
(* The HTTP route GET /channels (routes/discord.ts) behind authMiddleware. *)
(***************************************************************************)

(* At most this many requests of the route await getUserChannels at one
   time. *)
MaxRequests == 2

(* The Authorization header of a request: none, or a scheme and what follows
   it; after 'Bearer ' an empty string (kind "absent") or a token. *)
Headers ==
  {[scheme |-> "none", tok |-> NoTok]}
  \cup [scheme : {"Basic", "Bearer"}, tok : Tokens]

(* A response of the route. *)
Json(code, status, list, message) ==
  [code |-> code, status |-> status, data |-> list, message |-> message]

(* A faulty variant: the scheme of the header is not looked at. *)
authMiddleware_anyScheme(h) ==
  IF h.scheme = "none"
  THEN [next |-> FALSE, user |-> Undefined,
        response |-> Json(401, "failed", << >>, "No token provided")]
  ELSE IF h.tok.kind # "valid"
  THEN [next |-> FALSE, user |-> Undefined,
        response |-> Json(401, "failed", << >>, "Invalid or expired token")]
  ELSE [next |-> TRUE, response |-> NoResponse,
        user |-> [username |-> h.tok.username, discord_id |-> h.tok.discord_id]]

(* authMiddleware: 401 without a 'Bearer ' header and when verifyToken
   throws (jwt.verify on an empty, malformed, wrongly signed or expired
   token), else req.user is the payload and next is called. *)
authMiddleware(h) ==
  IF h.scheme # "Bearer"
  THEN [next |-> FALSE, user |-> Undefined,
        response |-> Json(401, "failed", << >>, "No token provided")]
  ELSE IF h.tok.kind # "valid"
  THEN [next |-> FALSE, user |-> Undefined,
        response |-> Json(401, "failed", << >>, "Invalid or expired token")]
  ELSE [next |-> TRUE, response |-> NoResponse,
        user |-> [username |-> h.tok.username, discord_id |-> h.tok.discord_id]]

(* The state the route leaves alone. *)
socketVars == <<io, channelSubscriptions, conn, data, joinedChannels, rooms, lookups,
                snapshots, fetches>>

(* The record of a step of the route: res is the scheme of the request's
   header, tok what followed it. *)
Http(op, h, u, response) ==
  [Did(op, None, None, u, NoMsg, NoReply, None)
     EXCEPT !.res = h.scheme, !.tok = h.tok, !.response = response]

(* The route, to its await of getUserChannels: the middleware, then the
   test of req.user.discord_id. *)
getChannelsRoute(h) ==
  LET a == authMiddleware(h) IN
  /\ IF ~a.next
     THEN /\ last' = Http("http_channels", h, None, a.response)
          /\ UNCHANGED requests
     ELSE IF a.user.discord_id = ""
     THEN /\ last' = Http("http_channels", h, None,
                          Json(401, "failed", << >>,
                               "Missing discord_id in user payload"))
          /\ UNCHANGED requests
     ELSE /\ Len(requests) < MaxRequests
          /\ requests' = Append(requests, h)
          /\ last' = Http("http_channels", h, a.user.discord_id, NoResponse)
  /\ out' = << >>
  /\ UNCHANGED socketVars

(* The route, from the result of getUserChannels on, for the i-th of the
   waiting requests.  getUserChannels never rejects, so the catch block is
   not entered. *)
getChannelsRouteResume(i, up) ==
  /\ i \in 1..Len(requests)
  /\ requests' = SubSeq(requests, 1, i - 1) \o SubSeq(requests, i + 1, Len(requests))
  /\ last' = [Http("http_channels_resume", requests[i], requests[i].tok.discord_id,
                   Json(200, "succeed", getUserChannels(up),
                        "Fetched accessible channels"))
              EXCEPT !.up = up]
  /\ out' = << >>
  /\ UNCHANGED socketVars

(* A faulty variant: totalSubscribers counts each principal once. *)
getSubscriptionStats_distinct(reg) ==
  LET RECURSIVE Entries(_, _)
      Entries(S, stats) ==
        IF S = {} THEN stats
        ELSE LET c == CHOOSE c \in S : TRUE
             IN  Entries(S \ {c},
                   [stats EXCEPT
                      !.channelDetails =
                         Append(@, [channelId |-> c,
                                    subscriberCount |-> Cardinality(reg[c])])])
  IN  Entries(DOMAIN reg,
              [totalChannels |-> Cardinality(DOMAIN reg),
               totalSubscribers |-> Cardinality(UNION {reg[c] : c \in DOMAIN reg}),
               channelDetails |-> << >>])

(* DiscordBot.getSubscriptionStats: the map's size, and over its entries the
   sum of the set sizes and one {channelId, subscriberCount} each.  The
   entries are taken in some fixed order, not the map's insertion order. *)
getSubscriptionStats(reg) ==
  LET RECURSIVE Entries(_, _)
      Entries(S, stats) ==
        IF S = {} THEN stats
        ELSE LET c == CHOOSE c \in S : TRUE
             IN  Entries(S \ {c},
                   [stats EXCEPT
                      !.totalSubscribers = @ + Cardinality(reg[c]),
                      !.channelDetails =
                         Append(@, [channelId |-> c,
                                    subscriberCount |-> Cardinality(reg[c])])])
  IN  Entries(DOMAIN reg,
              [totalChannels |-> Cardinality(DOMAIN reg),
               totalSubscribers |-> 0,
               channelDetails |-> << >>])

(* A direct call of the registry's public entry points. *)
SubscribeCall(c, u) ==
  /\ channelSubscriptions' = subscribeToChannel(channelSubscriptions, c, u)
  /\ last' = Call("subscribe", c, u)
  /\ out' = << >>
  /\ UNCHANGED handlerVars

UnsubscribeCall(c, u) ==
  /\ channelSubscriptions' = unsubscribeFromChannel(channelSubscriptions, c, u)
  /\ last' = Call("unsubscribe", c, u)
  /\ out' = << >>
  /\ UNCHANGED handlerVars

StatsCall ==
  /\ last' = [Call("stats", None, None)
              EXCEPT !.stats = getSubscriptionStats(channelSubscriptions)]
  /\ out' = << >>
  /\ UNCHANGED <<channelSubscriptions, handlerVars>>

RegistryNext ==
  \/ \E c \in Channels, u \in Users : SubscribeCall(c, u)
  \/ \E c \in Channels, u \in Users : UnsubscribeCall(c, u)
  \/ StatsCall

RegistrySpec == Init /\ [][RegistryNext]_vars

(* The server: the upstream client's events and the clients' connections. *)
Next ==
  \/ initialize
  \/ \E m \in Created : handleNewMessage(m)
  \/ \E m \in Updated : handleMessageUpdate(m)
  \/ \E m \in Deleted : handleMessageDelete(m)
  \/ \E s \in Sockets, tok \in Tokens : Connect(s, tok)
  \/ \E s \in Sockets, chs \in UserChannels : sendInitialData(s, chs)
  \/ \E s \in Sockets : getChannelsStart(s)
  \/ \E s \in Sockets, up \in GuildFetches : getChannelsResume(s, up)
  \/ \E s \in Sockets, c \in Channels : joinChannelStart(s, c)
  \/ \E s \in Sockets, c \in Channels, res \in FetchResults : joinChannelResume(s, c, res)
  \/ \E s \in Sockets, c \in Channels : handleLeaveChannel(s, c)
  \/ \E s \in Sockets : handleError(s)
  \/ \E s \in Sockets, r \in DisconnectReasons : handleDisconnect(s, r)

Spec == Init /\ [][Next]_vars

(* The server when the upstream client answers: a getUserChannels that a
   get_channels awaits returns or fails, it does not hang. *)
FairSpec ==
  Spec /\ \A s \in Sockets :
            WF_vars(\E up \in GuildFetches : getChannelsResume(s, up))

(* The sessions' join_channel, leave_channel and disconnect, with up to
   MaxOverlap join_channel calls suspended at getChannelInfo at one time. *)
MaxOverlap == 2

JoinNext ==
  \/ initialize
  \/ \E s \in Sockets, tok \in Tokens : Connect(s, tok)
  \/ \E s \in Sockets, chs \in UserChannels : sendInitialData(s, chs)
  \/ \E s \in Sockets, c \in Channels : joinChannelWithin(s, c, MaxOverlap)
  \/ \E s \in Sockets, c \in Channels, res \in FetchResults : joinChannelResume(s, c, res)
  \/ \E s \in Sockets, c \in Channels : handleLeaveChannel(s, c)
  \/ \E s \in Sockets, r \in DisconnectReasons : handleDisconnect(s, r)

JoinSpec == Init /\ [][JoinNext]_vars

(* The HTTP route by itself: it shares no state with the sockets. *)
HttpNext ==
  \/ \E h \in Headers : getChannelsRoute(h)
  \/ \E i \in 1..MaxRequests, up \in GuildFetches : getChannelsRouteResume(i, up)

HttpSpec == Init /\ [][HttpNext]_vars

(***************************************************************************)
(* The registry's contract, under arbitrary sequences of direct calls.     *)
(***************************************************************************)

(* C1: after any sequence of subscribeToChannel / unsubscribeFromChannel
   calls, every channel that is a key of the registry has at least one
   subscriber. *)
C1_NoEmptyEntry ==
  \A c \in DOMAIN channelSubscriptions : channelSubscriptions[c] # {}

(* An unsubscribe took the last subscriber of a channel away, and other
   channels still have entries. *)
C1_Witness ==
  /\ last.op = "unsubscribe" /\ last.member
  /\ ~Has(channelSubscriptions, last.c)
  /\ DOMAIN channelSubscriptions # {}

(* C2: a subscribeToChannel call that repeats the call before it leaves the
   registry as that call left it, and any subscribeToChannel call adds at
   most one channel entry. *)
C2_SubscribeIdempotent ==
  [][ (last'.op = "subscribe") =>
        /\ (last'.twice => channelSubscriptions' = channelSubscriptions)
        /\ last'.u \in Get(channelSubscriptions', last'.c)
        /\ Cardinality(DOMAIN channelSubscriptions')
             <= Cardinality(DOMAIN channelSubscriptions) + 1 ]_vars

(* The same subscribe call was made twice in a row. *)
C2_Witness ==
  /\ last.op = "subscribe" /\ last.twice
  /\ last.u \in Get(channelSubscriptions, last.c)

(* C3: unsubscribeFromChannel of a subscriber that is not in the channel's
   set (no entry, or an entry without it) raises nothing and leaves the
   whole registry as it was. *)
C3_UnsubscribeNonMember ==
  [][ (last'.op = "unsubscribe" /\ ~last'.member) =>
        /\ channelSubscriptions' = channelSubscriptions
        /\ last'.err = None ]_vars

(* A non-member was unsubscribed from a channel that has other subscribers. *)
C3_Witness ==
  /\ last.op = "unsubscribe" /\ ~last.member
  /\ Has(channelSubscriptions, last.c)

(***************************************************************************)
(* The relay's contract.                                                   *)
(***************************************************************************)

RelayOps == {"messageCreate", "messageUpdate", "messageDelete"}

Names(q) == {q[i].name : i \in 1..Len(q)}

(* C4: an upstream created, updated or deleted event whose channel has no
   subscriber in the registry when it is handled makes no transport emit.
   (No relay handler changes the registry, so the registry of the state
   after the handler is the one it read.) *)
C4_NoSubscriberNoEmit ==
  (/\ last.op \in RelayOps
   /\ last.msg.hasChannel
   /\ Get(channelSubscriptions, last.msg.channelId) = {})
  => out = << >>

(* C5: a created or updated event whose author is a bot emits nothing, and
   no message or message_update that is emitted carries a bot author. *)
C5_BotNeverRelayed ==
  /\ (last.op \in {"messageCreate", "messageUpdate"}
      /\ last.msg.hasAuthor /\ last.msg.bot)
     => out = << >>
  /\ \A i \in 1..Len(out) :
       out[i].name \in {"message", "message_update"} => ~out[i].payload.author.bot

(* A bot's message arrived on a channel that has a subscriber and a socket
   in its delivery group. *)
C5_Witness ==
  /\ last.op \in {"messageCreate", "messageUpdate"}
  /\ last.msg.hasAuthor /\ last.msg.bot
  /\ Get(channelSubscriptions, last.msg.channelId) # {}
  /\ InRoom(Room(last.msg.channelId)) # {}

(* C8: a created event of a non-bot author on a channel with a subscriber
   makes exactly one emit: a `message` to the group channel:<C> of the
   /discord namespace, carrying the event's id and content with
   edited = FALSE; and a `message` is emitted by nothing but the handling of
   its created event. *)
C8_ExactlyOneMessage ==
  /\ (/\ last.op = "messageCreate"
      /\ last.msg.hasAuthor /\ ~last.msg.bot /\ last.msg.hasChannel
      /\ Get(channelSubscriptions, last.msg.channelId) # {})
     => /\ Len(out) = 1
        /\ out[1].name = "message"
        /\ out[1].ns = "/discord"
        /\ out[1].room = "channel:" \o last.msg.channelId
        /\ out[1].sock = None
        /\ out[1].recv = InRoom("channel:" \o last.msg.channelId)
        /\ out[1].payload.id = last.msg.id
        /\ out[1].payload.content = last.msg.content
        /\ out[1].payload.channelId = last.msg.channelId
        /\ out[1].payload.edited = FALSE
  /\ \A i \in 1..Len(out) :
       out[i].name = "message"
         => /\ last.op = "messageCreate"
            /\ out[i].payload.id = last.msg.id
            /\ Len(out) = 1

(* A human's message was relayed to a group with a socket in it, while the
   other channel has subscribers too. *)
C8_Witness ==
  /\ last.op = "messageCreate" /\ ~last.msg.bot /\ last.msg.hasAuthor
  /\ last.msg.hasChannel
  /\ Len(out) = 1 /\ out[1].recv # {}
  /\ Cardinality(DOMAIN channelSubscriptions) = 2

(***************************************************************************)
(* The connection handler's contract.                                      *)
(***************************************************************************)

Elems(q) == {q[i] : i \in 1..Len(q)}

(* C6: when the disconnect handler of a session has run, the registry's set
   of every channel the session had in its joined-set is without the
   session's principal, and the joined-set is empty. *)
C6_DisconnectUnsubscribes ==
  [][ (last'.op = "disconnect") =>
        /\ joinedChannels'[last'.s] = << >>
        /\ \A c \in Elems(joinedChannels[last'.s]) :
             data[last'.s].discordId \notin Get(channelSubscriptions', c) ]_vars

(* A session that had joined both channels disconnected, and another
   principal is still subscribed. *)
C6_Witness ==
  /\ last.op = "disconnect"
  /\ Len(out) = 2
  /\ DOMAIN channelSubscriptions # {}

(* C7: join_channel for a channel in the session's joined-set calls back
   with success and alreadyJoined, and changes neither the joined-set, the
   registry, the delivery groups nor the lookups in flight, and emits
   nothing. *)
C7_RejoinShortCircuit ==
  [][ (last'.op = "join_channel" /\ SeqHas(joinedChannels[last'.s], last'.c)) =>
        /\ last'.reply = [called |-> TRUE, success |-> TRUE, channelId |-> last'.c,
                          alreadyJoined |-> TRUE, error |-> Undefined,
                                 channels |-> Undefined]
        /\ UNCHANGED <<joinedChannels, channelSubscriptions, rooms, lookups>>
        /\ out' = << >> ]_vars

(* A session asked to join a channel it had joined. *)
C7_Witness ==
  /\ last.op = "join_channel"
  /\ last.reply.called /\ last.reply.alreadyJoined = TRUE
  /\ SeqHas(joinedChannels[last.s], last.c)

(* C9: a disconnect emits one user_left per channel of the joined-set, with
   that channelId, to the channel's group; it reaches every other connected
   socket of the group and not the disconnecting one (nobody when it was
   alone); user_left is emitted by nothing else. *)
C9_UserLeftPerChannel ==
  [][ /\ (last'.op = "disconnect") =>
           LET s == last'.s
               q == joinedChannels[s]
           IN  /\ Len(out') = Len(q)
               /\ \A i \in 1..Len(q) :
                    /\ out'[i].name = "user_left"
                    /\ out'[i].payload.channelId = q[i]
                    /\ out'[i].room = "channel:" \o q[i]
                    /\ out'[i].recv =
                         {t \in Sockets \ {s} :
                            conn[t] = "connected" /\ ("channel:" \o q[i]) \in rooms[t]}
               /\ \A i, j \in 1..Len(q) : q[i] = q[j] => i = j
      /\ ("user_left" \in Names(out')) => last'.op = "disconnect" ]_vars

(* A session that had joined both channels disconnected: one group had
   another socket in it, in the other the session was alone. *)
C9_Witness ==
  /\ last.op = "disconnect"
  /\ Len(out) = 2
  /\ \E i, j \in 1..2 : out[i].recv # {} /\ out[j].recv = {}

(* C10: a join_channel whose upstream lookup fails (null, a channel that is
   not text based, or a rejection) changes neither the joined-set, the
   delivery groups nor the registry, at its start and at its resumption,
   emits nothing, and calls back with success = FALSE and an error string. *)
C10_FailedJoinChangesNothing ==
  [][ /\ (last'.op = "join_channel_resume" /\ last'.res # "text") =>
           /\ UNCHANGED <<joinedChannels, rooms, channelSubscriptions>>
           /\ out' = << >>
           /\ last'.reply.called /\ last'.reply.success = FALSE
           /\ last'.reply.error = "Failed to join channel"
      /\ (last'.op = "join_channel") =>
           /\ UNCHANGED <<joinedChannels, rooms, channelSubscriptions>>
           /\ out' = << >> ]_vars

(* The lookup of an unknown channel failed for a session that has joined
   another channel. *)
C10_Witness ==
  /\ last.op = "join_channel_resume" /\ last.res = "null"
  /\ ~last.reply.success
  /\ joinedChannels[last.s] # << >>
  /\ ~SeqHas(joinedChannels[last.s], last.c)

(* C11: a leave_channel calls back with success = TRUE and the channelId,
   whether the channel was in the session's joined-set or not; after it the
   channel is not in the joined-set and the socket is not in the channel's
   group; a leave_channel repeated at once changes nothing more. *)
C11_LeaveAlwaysSucceeds ==
  [][ (last'.op = "leave_channel") =>
        LET s == last'.s
            c == last'.c
        IN  /\ last'.reply.called /\ last'.reply.success = TRUE
            /\ last'.reply.channelId = c
            /\ last'.reply.error = Undefined
            /\ ~SeqHas(joinedChannels'[s], c)
            /\ ("channel:" \o c) \notin rooms'[s]
            /\ \A d \in Channels \ {c} :
                 /\ SeqHas(joinedChannels'[s], d) = SeqHas(joinedChannels[s], d)
                 /\ (("channel:" \o d) \in rooms'[s]) = (("channel:" \o d) \in rooms[s])
            /\ last'.twice =>
                 UNCHANGED <<joinedChannels, rooms, channelSubscriptions,
                             conn, data, lookups>> ]_vars

(* A session left a channel it had not joined, while it had joined the
   other one; and a session repeated a leave_channel. *)
C11_Witness ==
  /\ last.op = "leave_channel" /\ last.reply.success = TRUE
  /\ joinedChannels[last.s] # << >>
  /\ last.twice

(* C12: under FairSpec every get_channels a connected session made is
   answered: its callback is called, by the resumption of that request and
   by nothing else, once for each request, with a channels list; the list is
   empty when the enumeration of the guilds threw, and when every
   members.fetch was rejected. *)
C12_GetChannelsAnswered ==
  /\ \A s \in Sockets :
       (fetches[s] > 0) ~>
         (last.op = "get_channels_resume" /\ last.s = s /\ last.reply.called)
  /\ [][ /\ (last'.op = "get_channels_resume") =>
             LET s == last'.s IN
             /\ fetches[s] > 0
             /\ fetches' = [fetches EXCEPT ![s] = @ - 1]
             /\ last'.reply.called /\ last'.reply.success = TRUE
             /\ last'.reply.channels \in UNION {[1..n -> Channels] : n \in 0..2}
             /\ (\E i \in 1..2 : last'.up[i] = "throws") =>
                  last'.reply.channels = << >>
             /\ (\A i \in 1..2 : last'.up[i] = "rejected") =>
                  last'.reply.channels = << >>
         /\ (last'.op = "get_channels") =>
             /\ conn[last'.s] = "connected"
             /\ ~last'.reply.called
             /\ fetches' = [fetches EXCEPT ![last'.s] = @ + 1]
         /\ (fetches' # fetches) =>
             last'.op \in {"get_channels", "get_channels_resume"} ]_vars

(* A get_channels was answered with the empty list after the enumeration
   threw in the second guild, the principal being a member of the first. *)
C12_Witness ==
  /\ last.op = "get_channels_resume"
  /\ last.up = << "member", "throws" >>
  /\ last.reply.called /\ last.reply.channels = << >>
  /\ conn[last.s] = "connected"

(* C13: a connection whose credential is missing, malformed, wrongly
   signed, expired, or without a username or a discord_id ends with an error
   given to next; the socket gets no principal and no handler, and the
   registry, the groups and every handler are as before.  A socket gets its
   handler by a connection with a verified, complete credential and by
   nothing else, and a socket without a handler has no handler state. *)
C13_AuthFailureLeavesNothing ==
  [][ /\ ( /\ last'.op = "connect"
           /\ \/ last'.tok.kind \in {"absent", "malformed", "badsignature", "expired"}
              \/ last'.tok.username = ""
              \/ last'.tok.discord_id = "" ) =>
             /\ last'.err \notin {None, ""}
             /\ conn'[last'.s] = "new"
             /\ data'[last'.s].discordId = Undefined
             /\ data'[last'.s].user = Null
             /\ UNCHANGED <<channelSubscriptions, conn, data, joinedChannels, rooms,
                            lookups, snapshots, fetches>>
             /\ out' = << >>
      /\ \A s \in Sockets :
           /\ (conn[s] = "new" /\ conn'[s] # "new") =>
                /\ last'.op = "connect" /\ last'.s = s /\ last'.err = None
                /\ last'.tok.kind = "valid"
                /\ last'.tok.username # "" /\ last'.tok.discord_id # ""
                /\ data'[s].discordId = last'.tok.discord_id
                /\ data'[s].user.username = last'.tok.username
           /\ (conn'[s] = "new") =>
                /\ joinedChannels'[s] = << >> /\ rooms'[s] = {}
                /\ ~snapshots'[s] /\ fetches'[s] = 0
                /\ \A c \in Channels : lookups'[s][c] = 0 ]_vars

(* An expired credential was refused while another session was subscribed. *)
C13_Witness ==
  /\ last.op = "connect" /\ last.tok.kind = "expired"
  /\ last.err # None
  /\ conn[last.s] = "new"
  /\ channelSubscriptions # << >>

(* C14: a verified credential without a username or without a discord_id
   is refused with 'Invalid token payload', a malformed or wrongly signed
   one with 'Invalid authentication token'; the two texts differ, each is
   given for its own kind of credential only, and in both cases the socket
   is not connected. *)
C14_PayloadErrorDistinct ==
  (last.op = "connect") =>
    LET incomplete == /\ last.tok.kind = "valid"
                      /\ (last.tok.username = "" \/ last.tok.discord_id = "")
        unverified == last.tok.kind \in {"malformed", "badsignature"}
    IN  /\ incomplete => (last.err = "Invalid token payload" /\ conn[last.s] = "new")
        /\ unverified => (last.err = "Invalid authentication token" /\ conn[last.s] = "new")
        /\ (last.err = "Invalid token payload") => incomplete
        /\ (last.err = "Invalid authentication token") => ~incomplete
        /\ "Invalid token payload" # "Invalid authentication token"

(* A verified credential with a discord_id and no username was refused. *)
C14_Witness ==
  /\ last.op = "connect"
  /\ last.tok.kind = "valid" /\ last.tok.username = "" /\ last.tok.discord_id # ""
  /\ last.err = "Invalid token payload"
  /\ conn[last.s] = "new"

(* C15: an upstream event whose payload lacks the author or the channel is
   dropped: the handler emits nothing and no error leaves it (it returns, or
   its catch block takes the error). *)
C15_MalformedDropped ==
  (last.op \in RelayOps /\ (~last.msg.hasAuthor \/ ~last.msg.hasChannel)) =>
    /\ out = << >>
    /\ last.err \in {"", "caught"}

(* C16: a message_update is emitted by the handler of an upstream update
   only, with the id of the upstream message, edited = TRUE and
   editedTimestamp the ISO string of the upstream edit time, or '' when the
   upstream message has no edit time; a message is emitted by the handler of
   an upstream creation only, with that message's id, edited = FALSE and
   editedTimestamp = ''. *)
C16_EditStamp ==
  \A i \in 1..Len(out) :
    /\ (out[i].name = "message_update") =>
         /\ last.op = "messageUpdate"
         /\ out[i].payload.id = last.msg.id
         /\ out[i].payload.edited = TRUE
         /\ out[i].payload.editedTimestamp =
              IF last.msg.editedAt = "null" THEN "" ELSE "iso:" \o last.msg.editedAt
    /\ (out[i].name = "message") =>
         /\ last.op = "messageCreate"
         /\ out[i].payload.id = last.msg.id
         /\ out[i].payload.edited = FALSE
         /\ out[i].payload.editedTimestamp = ""

(* The update of a message edited at t1 reached a session of the group. *)
C16_Witness ==
  /\ last.op = "messageUpdate" /\ last.msg.editedAt = "t1"
  /\ Len(out) = 1 /\ out[1].name = "message_update"
  /\ out[1].payload.editedTimestamp = "iso:t1"
  /\ out[1].recv # {}

(* C17: a message_delete is emitted by the handler of an upstream deletion
   only; its payload has the two fields messageId and channelId and no
   other, they are the id and the channel id of the deleted message, and it
   goes to the group of that channel in the /discord namespace. *)
C17_DeleteMinimal ==
  \A i \in 1..Len(out) :
    (out[i].name = "message_delete") =>
      /\ last.op = "messageDelete"
      /\ DOMAIN out[i].payload = {"messageId", "channelId"}
      /\ out[i].payload.messageId = last.msg.id
      /\ out[i].payload.channelId = last.msg.channelId
      /\ out[i].room = "channel:" \o last.msg.channelId
      /\ out[i].ns = "/discord"
      /\ Len(out) = 1

(* The deletion of a message reached a session of the channel's group. *)
C17_Witness ==
  /\ last.op = "messageDelete"
  /\ Len(out) = 1 /\ out[1].name = "message_delete"
  /\ out[1].recv # {}

(* C18: every event the server emits has a name among channels_list,
   user_info, message, message_update, message_delete, user_left and error,
   and the initial snapshot is a channels_list followed by a user_info. *)
C18_EventNames ==
  /\ \A i \in 1..Len(out) :
       out[i].name \in {"channels_list", "user_info", "message", "message_update",
                        "message_delete", "user_left", "error"}
  /\ (last.op = "initial_data") =>
       (Len(out) = 2 /\ out[1].name = "channels_list" /\ out[2].name = "user_info")

(* C19: the id a connection handler gives logError is the discord_id the
   authenticator attached to the socket. *)
C19_LoggedPrincipal ==
  (last.logId # None) => (last.logId = data[last.s].discordId)

(* C20: getSubscriptionStats leaves the registry as it is and returns
   totalChannels = the number of entries, totalSubscribers = the number of
   (channel, subscriber) pairs, and channelDetails with exactly one entry for
   each channel of the registry and none else, whose subscriberCount is the
   size of the channel's set and at least 1. *)
C20_StatsMatchRegistry ==
  [][ (last'.op = "stats") =>
        LET reg == channelSubscriptions
            st  == last'.stats
        IN  /\ channelSubscriptions' = reg
            /\ st.totalChannels = Cardinality(DOMAIN reg)
            /\ st.totalSubscribers =
                 Cardinality({p \in Channels \X Users :
                                p[1] \in DOMAIN reg /\ p[2] \in reg[p[1]]})
            /\ Len(st.channelDetails) = Cardinality(DOMAIN reg)
            /\ \A i \in 1..Len(st.channelDetails) :
                 st.channelDetails[i].channelId \in DOMAIN reg
            /\ \A c \in DOMAIN reg :
                 \E i \in 1..Len(st.channelDetails) :
                   /\ st.channelDetails[i].channelId = c
                   /\ st.channelDetails[i].subscriberCount = Cardinality(reg[c])
                   /\ st.channelDetails[i].subscriberCount >= 1
                   /\ \A j \in 1..Len(st.channelDetails) :
                        st.channelDetails[j].channelId = c => j = i ]_vars

(* The stats of a registry of two channels in which one principal is
   subscribed to both and the other to one: three subscribers. *)
C20_Witness ==
  /\ last.op = "stats"
  /\ last.stats.totalChannels = 2 /\ last.stats.totalSubscribers = 3
  /\ \E u \in Users : \A c \in Channels :
       c \in DOMAIN channelSubscriptions /\ u \in channelSubscriptions[c]

(* C21: the route answers 'succeed', with the channels getUserChannels
   gave, only to a request whose header is 'Bearer ' and a token that
   verifies and has a discord_id; a request without a header, with another
   scheme, with an empty, malformed, wrongly signed or expired token, or
   with a token without discord_id is answered at once with 'failed' and
   empty data, and getUserChannels is not called for it. *)
C21_RouteAuthenticated ==
  [][ LET good == /\ last'.res = "Bearer"
                  /\ last'.tok.kind = "valid"
                  /\ last'.tok.discord_id # ""
      IN  /\ (last'.op = "http_channels" /\ ~good) =>
               /\ last'.response.status = "failed"
               /\ last'.response.data = << >>
               /\ UNCHANGED requests
          /\ (last'.op = "http_channels" /\ good) =>
               /\ last'.response.status \notin {"succeed", "failed"}
               /\ requests' = Append(requests, [scheme |-> "Bearer", tok |-> last'.tok])
          /\ (last'.op = "http_channels_resume") =>
               /\ good
               /\ last'.response.status = "succeed"
               /\ last'.response.data = getUserChannels(last'.up)
               /\ Len(requests') = Len(requests) - 1 ]_vars

(* A request with a verified token under the scheme Basic was refused. *)
C21_Witness ==
  /\ last.op = "http_channels"
  /\ last.res = "Basic" /\ last.tok.kind = "valid" /\ last.tok.discord_id # ""
  /\ last.response.status = "failed"
  /\ requests # << >>

(* C22: when no handler is suspended at the upstream client, every
   (channel, principal) pair of the registry is backed by a connected
   session of that principal whose joined-set has the channel. *)
C22_RegistryBacked ==
  (InFlight = 0) =>
    \A c \in DOMAIN channelSubscriptions :
      \A u \in channelSubscriptions[c] :
        \E s \in Sockets :
          /\ conn[s] = "connected"
          /\ data[s].discordId = u
          /\ SeqHas(joinedChannels[s], c)

(* C23: a connected session none of whose join_channel calls is suspended is
   subscribed, by its principal, in the registry to every channel of its
   joined-set. *)
C23_JoinedIsSubscribed ==
  \A s \in Sockets :
    (conn[s] = "connected" /\ \A d \in Channels : lookups[s][d] = 0) =>
      \A i \in 1..Len(joinedChannels[s]) :
        /\ joinedChannels[s][i] \in DOMAIN channelSubscriptions
        /\ data[s].discordId \in channelSubscriptions[joinedChannels[s][i]]

(* C24: when a join_channel resumes from a lookup that found the text
   channel and the channel is in the session's joined-set by then (a join of
   the same channel that overlapped it has completed), it emits no
   confirmation and calls back with alreadyJoined = TRUE. *)
C24_OverlapRechecked ==
  [][ ( /\ last'.op = "join_channel_resume" /\ last'.res = "text"
        /\ SeqHas(joinedChannels[last'.s], last'.c) ) =>
        /\ out' = << >>
        /\ last'.reply.called /\ last'.reply.success = TRUE
        /\ last'.reply.alreadyJoined = TRUE ]_vars

(* C25: a join_channel that went to the upstream lookup ends in one of two
   ways.  Either the socket is in the group channel:<id>, the channel is in
   the joined-set, the principal is in the registry's set of the channel,
   the confirmation for the channel was emitted to the socket and the
   callback got success = TRUE; or the groups, the joined-set and the
   registry are as before, nothing was emitted and the callback got
   success = FALSE.  The first happens when the lookup found a text channel,
   the second otherwise. *)
C25_JoinAllOrNothing ==
  [][ (last'.op = "join_channel_resume") =>
        LET s == last'.s
            c == last'.c
            all == /\ ("channel:" \o c) \in rooms'[s]
                   /\ SeqHas(joinedChannels'[s], c)
                   /\ c \in DOMAIN channelSubscriptions'
                   /\ data[s].discordId \in channelSubscriptions'[c]
                   /\ Len(out') = 1 /\ out'[1].sock = s /\ out'[1].payload.id = c
                   /\ last'.reply.called /\ last'.reply.success = TRUE
            none == /\ UNCHANGED <<rooms, joinedChannels, channelSubscriptions>>
                    /\ out' = << >>
                    /\ last'.reply.called /\ last'.reply.success = FALSE
        IN  IF last'.res = "text" THEN all ELSE none ]_vars

(* A join_channel of a connected session completed with success while
   another lookup of the same session is still suspended. *)
C25_Witness ==
  /\ last.op = "join_channel_resume" /\ last.reply.success = TRUE
  /\ conn[last.s] = "connected"
  /\ SeqHas(joinedChannels[last.s], last.c)
  /\ \E d \in Channels : lookups[last.s][d] > 0

(* C26: a relayed message, message_update or message_delete of a channel
   reaches only connected sessions whose joined-set has the channel (a
   channel enters the joined-set by a join_channel that succeeded and leaves
   it by leave_channel and by the disconnect); and when no handler is
   suspended at the upstream client, a socket is in the group channel:<C>
   exactly when C is in its session's joined-set. *)
C26_DeliveredToJoinedOnly ==
  /\ \A i \in 1..Len(out) :
       (out[i].name \in {"message", "message_update", "message_delete"}) =>
         /\ out[i].room = "channel:" \o last.msg.channelId
         /\ \A s \in out[i].recv :
              /\ conn[s] = "connected"
              /\ SeqHas(joinedChannels[s], last.msg.channelId)
  /\ (InFlight = 0) =>
       \A s \in Sockets, c \in Channels :
         (("channel:" \o c) \in rooms[s]) <=> SeqHas(joinedChannels[s], c)

(* A created message reached one connected session and not the other, which
   has joined the other channel only. *)
C26_Witness ==
  /\ last.op = "messageCreate"
  /\ Len(out) = 1 /\ out[1].recv # {}
  /\ \E s \in Sockets \ out[1].recv :
       /\ conn[s] = "connected"
       /\ ~SeqHas(joinedChannels[s], last.msg.channelId)
       /\ joinedChannels[s] # << >>

(* C27: a leave_channel for a channel that is not in the session's
   joined-set leaves the registry as it is. *)
C27_LeaveNotJoinedKeepsRegistry ==
  [][ (last'.op = "leave_channel" /\ ~SeqHas(joinedChannels[last'.s], last'.c)) =>
        UNCHANGED channelSubscriptions ]_vars

(* C28: when a handler of a session caught an error, what it sends is an
   error event {code, message, severity} to that session's socket alone or a
   callback {success: FALSE, error} of that request; the joined-sets of the
   other sessions, the registry, the groups, and the connection of every
   session (so the listeners of the session itself) are as before. *)
C28_ErrorStaysWithSession ==
  [][ (last'.err = "caught" /\ last'.s \in Sockets) =>
        LET s == last'.s IN
        /\ \A i \in 1..Len(out') :
             /\ out'[i].name = "error"
             /\ out'[i].sock = s
             /\ out'[i].recv \subseteq {s}
             /\ DOMAIN out'[i].payload = {"code", "message", "severity"}
        /\ last'.reply.called =>
             /\ last'.reply.success = FALSE
             /\ last'.reply.error \notin {Undefined, ""}
        /\ (out' # << >>) \/ last'.reply.called
        /\ \A t \in Sockets \ {s} : joinedChannels'[t] = joinedChannels[t]
        /\ UNCHANGED <<channelSubscriptions, rooms, conn, data>> ]_vars

(* The socket of a session raised an error while another session was
   connected and had joined a channel; the error went to the first alone. *)
C28_Witness ==
  /\ last.op = "socket_error"
  /\ Len(out) = 1 /\ out[1].recv = {last.s}
  /\ \E t \in Sockets \ {last.s} :
       conn[t] = "connected" /\ joinedChannels[t] # << >>

(* C29: an expired credential with a valid signature is refused by the
   socket authenticator with 'Authentication token expired'. *)
C29_ExpiredHasOwnError ==
  (last.op = "connect" /\ last.tok.kind = "expired") =>
    /\ last.err = "Authentication token expired"
    /\ conn[last.s] = "new"

(* C30: the userId of a user_info and the user.id of a user_left are the
   discord_id of the session's principal, the id under which the session is
   subscribed in the registry. *)
C30_EventsCarryPrincipal ==
  \A i \in 1..Len(out) :
    /\ (out[i].name = "user_info") =>
         out[i].payload.userId = data[last.s].discordId
    /\ (out[i].name = "user_left") =>
         out[i].payload.user.id = data[last.s].discordId

====
